---- MODULE Spec2Model ----
(***************************************************************************)
(* Change tracking and save/load of one Model instance                     *)
(* (src/src/model.ts) bound to a storage adapter (src/src/adapter.ts,      *)
(* src/test/sqlite-adapter.ts) with the field specs and hooks of the       *)
(* ComplexModel test class (src/test/advanced-model.test.ts).              *)
(*                                                                         *)
(* save() and load() are async: the code between two awaits runs           *)
(* atomically, so every await is one step and callers may interleave       *)
(* set/put/mark*/save with a suspended save().                             *)
(***************************************************************************)
EXTENDS Integers, Sequences, FiniteSets, TLC

\* ---------------------------------------------------------------- bounds
MaxVal == 1        \* field values are 1..MaxVal
MaxId == 1         \* identifiers are 1..MaxId
MaxCalls == 1      \* save() invocations that may be in flight at once
MaxRows == 2       \* rows of the table a criteria lookup runs on

\* ------------------------------------------------------------- constants
Undef == 0         \* JavaScript undefined (absent key)
NoId == 0          \* this.id === undefined

Fields == {"name", "count", "secretKey"}
Values == 1..MaxVal
Ids == 1..MaxId
Calls == 1..MaxCalls

\* fieldSpecs of the binding: secretKey: { persist: false }
NonPersisted == {"secretKey"}

\* fieldSpecs of the binding: metadata: { encoder: jsonEncoder }
Encoded == {"metadata"}

\* every key this.data may hold
AllFields == Fields \cup Encoded

\* jsonEncoder.encode: JSON.stringify(value), a text that is no in-memory
\* value (texts are MaxVal + 1 .. 2 * MaxVal); undefined stays undefined
Encode(f, v) ==
  IF f \in Encoded /\ v # Undef /\ v <= MaxVal THEN v + MaxVal ELSE v

\* jsonEncoder.decode: JSON.parse(value)
Decode(f, r) ==
  IF f \in Encoded /\ r > MaxVal THEN r - MaxVal ELSE r

Range(s) == {s[i] : i \in 1..Len(s)}

\* fieldSpecs?.[field]?.persist !== false
Persist(f) == f \notin NonPersisted

\* mutant: the field is appended whether or not it is in the set
SetAdd_Appends(s, f) == Append(s, f)

\* Set.prototype.add on an insertion-ordered Set
SetAdd(s, f) == IF f \in Range(s) THEN s ELSE Append(s, f)

\* mutant: the delete empties the set
SetDelete_Clears(s, f) == <<>>

\* Set.prototype.delete
SetDelete(s, f) == SelectSeq(s, LAMBDA x : x # f)

RECURSIVE SetAddAll(_, _)
\* for (let key in changes) this.changedFields.add(key)
SetAddAll(s, keys) ==
  IF keys = <<>> THEN s ELSE SetAddAll(SetAdd(s, Head(keys)), Tail(keys))

\* sequences of distinct names of F: the key order of an object literal
KeySeqsOver(F) ==
  {ks \in UNION {[1..n -> F] : n \in 0..Cardinality(F)} :
     \A i, j \in 1..Len(ks) : i # j => ks[i] # ks[j]}

KeySeqs == KeySeqsOver(Fields)

\* objects with keys in F: keys in order, val[f] = Undef exactly for absent
\* keys
ObjectsOver(F) ==
  {o \in [keys : KeySeqsOver(F), val : [AllFields -> 0..MaxVal]] :
     \A f \in AllFields : (o.val[f] # Undef) <=> (f \in Range(o.keys))}

Objects == ObjectsOver(Fields)

\* { ...a, ...b }
Spread(a, b) == [f \in AllFields |-> IF b[f] # Undef THEN b[f] ELSE a[f]]

EmptyData == [f \in AllFields |-> Undef]

VARIABLES
  phase,          \* "unborn" | "live" | "absent" (load returned null)
  arg,            \* the pending constructor / load input
  data,           \* this.data
  changedFields,  \* this.changedFields, in insertion order
  persisted,      \* this._persisted
  id,             \* this.id
  globalSpec,     \* the hooks configured in the binding
  calls,          \* the save() invocations in flight
  lastSave,       \* the last completed save(), until the caller mutates
  sinceOk,        \* fields set() since the last successful dispatch
  postSaveCalled, \* flag written by the postSave hook
  preSaveCalled,  \* flag written by the preSave hook
  postLoadCalled, \* flag written by the postLoad hook
  table,          \* the rows of the storage table, when the model tracks them
  found,          \* what the last load, getBy, all or del returned
  others,         \* the other instances of the class
  race,           \* save() invocations started without awaiting each other
  insertions      \* history: the fields in order of first insertion

entity == <<data, changedFields, persisted, id>>
flags == <<postSaveCalled, preSaveCalled, postLoadCalled>>
vars == <<phase, arg, data, changedFields, persisted, id, globalSpec, calls,
          lastSave, sinceOk, postSaveCalled, preSaveCalled, postLoadCalled,
          table, found, others, race, insertions>>

\* ------------------------------------------------------------ the binding
\* the globalSpec of the ComplexModel binding configures every hook
AllHooks == {"preSave", "postSave", "postLoad"}

\* mutant: the persist filter is forgotten
OutboundFields_NoFilter(changed) == changed

\* const fields = this.getChangedFields().filter(persist !== false)
OutboundFields(changed) == SelectSeq(changed, Persist)

\* ---------------------------------------------------------- Model methods
\* mutant: the change set survives the clear
ClearChanged_Keep(ch) == ch

\* clearChangedFields(): this.changedFields.clear()
ClearChanged(ch) == <<>>

\* mutant: set(changes) writes the values but marks nothing changed
ModelSetMany_NoMark(d, ch, o) ==
  [data |-> Spread(d, o.val), changedFields |-> ch]

\* set(changes): spread into data, add every key to changedFields
ModelSetMany(d, ch, o) ==
  [data |-> Spread(d, o.val), changedFields |-> SetAddAll(ch, o.keys)]

\* mutant: the identifier key stays in the value map
Rest_KeepsId(a) == a

\* const { id, ...rest } = data: the value map without its identifier key
Rest(a) == [a EXCEPT !.keys = SelectSeq(a.keys, LAMBDA k : k # "id")]

\* mutant: the persisted argument is ignored
Constructor_IgnoresPersisted(a, persistedArg) ==
  LET r == ModelSetMany(EmptyData, <<>>, a)
  IN [data |-> r.data, changedFields |-> r.changedFields,
      persisted |-> FALSE, id |-> a.id]

\* new Model(data, persisted)
Constructor(a, persistedArg) ==
  IF persistedArg
  THEN [data |-> a.val, changedFields |-> <<>>, persisted |-> TRUE,
        id |-> a.id]
  ELSE LET r == ModelSetMany(EmptyData, <<>>, Rest(a))
       IN [data |-> r.data, changedFields |-> r.changedFields,
           persisted |-> FALSE, id |-> a.id]

\* ------------------------------------------------------- auxiliary state
NoArg == [how |-> "none", keys |-> <<>>, val |-> EmptyData, id |-> NoId,
          persistedArg |-> FALSE]

\* the bind values of a dispatch: none yet
NoneSent == [f \in {} |-> Undef]

\* wasPersisted: this.persisted as save() read it on entry
Idle == [pc |-> "idle", fields |-> <<>>, kind |-> "none", sent |-> NoneSent,
         rid |-> NoId, disturbed |-> FALSE, wasPersisted |-> FALSE]

\* after: for a no-op, the kind of the successful save() it directly follows
\* fresh: the save() succeeded on an entity that was new and had no id
\* returned: what the save() resolved with, "this" or the value of postSave
NoSave == [outcome |-> "none", kind |-> "none", fields |-> <<>>,
           sent |-> NoneSent, error |-> "none", solo |-> FALSE,
           after |-> "none", fresh |-> FALSE, returned |-> "none"]

NA == {"n/a"}

\* no history of the change set is kept
NoHistory == <<"n/a">>

\* the history of the change set, where it is kept: a field enters it at
\* its first insertion into changedFields and stays until changedFields is
\* empty again
Track(h, changed) ==
  IF h = NoHistory THEN NoHistory
  ELSE IF changed = <<>> THEN <<>>
       ELSE h \o SelectSeq(changed, LAMBDA f : f \notin Range(h))

\* a save() with which a mutation or another save() interleaved: what it
\* sent is no longer compared with anything and is dropped
Disturbed(call) ==
  [call EXCEPT !.disturbed = TRUE, !.sent = NoneSent,
               !.wasPersisted = FALSE,
               !.kind = IF call.pc = "db" THEN "sent" ELSE "none"]

InFlight == {c \in Calls : calls[c].pc # "idle"}

\* save() number c has returned or thrown: the later ones move up
Remove(c) ==
  [d \in Calls |->
     IF d < c THEN calls[d]
     ELSE IF d < MaxCalls THEN calls[d + 1] ELSE Idle]

\* storage the model does not track: the adapter's answers are then inputs
NoTable == [tracked |-> FALSE, rows |-> <<>>]

\* no lookup and no del() has returned yet; hooks counts the postLoad
\* (postDelete) calls of the operation, entities is the sequence all()
\* returned
NoFound == [outcome |-> "none", error |-> "none", hooks |-> 0,
            entities |-> <<>>]

\* one instance of the class
Alone == <<>>

\* every save() awaited before the next
NoRace == <<>>

\* SELECT * FROM t WHERE id = $1
RowsWithId(rows, i) == SelectSeq(rows, LAMBDA r : r.id = i)

\* getFromDb(context, id): the row, or null; a NULL column is read back
\* as no value
GetFromDb(rows, i) ==
  LET rs == RowsWithId(rows, i)
  IN IF rs = <<>>
     THEN [how |-> "loadNull", keys |-> <<>>, val |-> EmptyData, id |-> NoId,
           persistedArg |-> FALSE]
     ELSE [how |-> "load", keys |-> <<>>, val |-> rs[1].val, id |-> rs[1].id,
           persistedArg |-> TRUE]

\* INSERT INTO t (id, fields...) VALUES ($1, ...): the other columns are NULL
InsertRow(rows, call) ==
  Append(rows,
         [id |-> call.rid,
          val |-> [f \in AllFields |->
                     IF f \in DOMAIN call.sent THEN call.sent[f] ELSE Undef]])

\* mutant: the UPDATE writes the whole row, NULL for the columns not sent
UpdateRows_WholeRow(rows, call) ==
  [k \in 1..Len(rows) |->
     IF rows[k].id = call.rid
     THEN [rows[k] EXCEPT
             !.val = [f \in AllFields |->
                        IF f \in DOMAIN call.sent
                        THEN call.sent[f] ELSE Undef]]
     ELSE rows[k]]

\* UPDATE t SET field = $n, ... WHERE id = $1
UpdateRows(rows, call) ==
  [k \in 1..Len(rows) |->
     IF rows[k].id = call.rid
     THEN [rows[k] EXCEPT
             !.val = [f \in AllFields |->
                        IF f \in DOMAIN call.sent
                        THEN call.sent[f] ELSE rows[k].val[f]]]
     ELSE rows[k]]

\* db.run(query, bindValues) can resolve: the statement lists a column
\* and an INSERT meets no row with its id (PRIMARY KEY)
RunsOk(t, call) ==
  t.tracked =>
    /\ call.fields # <<>>
    /\ call.kind = "insert" => RowsWithId(t.rows, call.rid) = <<>>

\* db.run(query, bindValues) resolves: the table after the statement
DbRun(t, call) ==
  IF ~t.tracked THEN t
  ELSE [t EXCEPT
          !.rows = IF call.kind = "insert" THEN InsertRow(t.rows, call)
                   ELSE IF call.kind = "update" THEN UpdateRows(t.rows, call)
                   ELSE t.rows]

\* a caller mutation: it disturbs every suspended save() and ends the
\* "no mutation since the last save()" period
Disturb ==
  /\ calls' = [c \in Calls |->
                 IF calls[c].pc # "idle"
                 THEN Disturbed(calls[c]) ELSE calls[c]]
  /\ lastSave' = NoSave

\* ------------------------------------------------------------------ Init
\* arguments of new M(data, persisted)
Args ==
  {[how |-> h, keys |-> o.keys, val |-> o.val, id |-> i, persistedArg |-> p] :
     h \in {"new"}, o \in Objects, i \in Ids \cup {NoId}, p \in BOOLEAN}

\* results of adapter.getFromDb(context, id): a row with its id, or null
Rows ==
  {[how |-> h, keys |-> o.keys, val |-> o.val, id |-> i, persistedArg |-> p] :
     h \in {"load"}, o \in Objects, i \in Ids, p \in {TRUE}}
  \cup
  {[NoArg EXCEPT !.how = "loadNull"]}

Begin(inputs, tables, hookSets, instances, races, histories) ==
  /\ phase = "unborn"
  /\ arg \in inputs
  /\ table \in tables
  /\ found = NoFound
  /\ others \in instances
  /\ race \in races
  /\ insertions \in histories
  /\ data = EmptyData
  /\ changedFields = <<>>
  /\ persisted = FALSE
  /\ id = NoId
  /\ globalSpec \in hookSets
  /\ calls = [c \in Calls |-> Idle]
  /\ lastSave = NoSave
  /\ sinceOk = NA
  /\ postSaveCalled = "false"
  /\ preSaveCalled = "false"
  /\ postLoadCalled = "false"

\* one instance, under the binding of ComplexModel
Start(inputs, tables) ==
  Begin(inputs, tables, {AllHooks}, {Alone}, {NoRace}, {NoHistory})

\* an entity about to be constructed by the caller
Init == Start(Args, {NoTable})

\* an entity about to be loaded from storage
\* raw rows handed to M.fromRow(row)
RawRows ==
  {[how |-> h, keys |-> o.keys, val |-> o.val, id |-> i, persistedArg |-> p] :
     h \in {"fromRow"}, o \in Objects, i \in Ids, p \in {TRUE}}

InitLoad == Start(Rows \cup RawRows, {NoTable})

\* --------------------------------------------------------------- actions
\* const m = new M(data, persisted)
New ==
  /\ phase = "unborn"
  /\ arg.how = "new"
  /\ LET m == Constructor(arg, arg.persistedArg)
     IN /\ data' = m.data
        /\ changedFields' = m.changedFields
        /\ persisted' = m.persisted
        /\ id' = m.id
  /\ phase' = "live"
  /\ arg' = NoArg
  /\ UNCHANGED <<globalSpec, calls, lastSave, sinceOk, flags>>
  /\ UNCHANGED <<table, found>>
  /\ UNCHANGED <<others, race>>
  /\ insertions' = Track(insertions, changedFields')

\* what adapter.getFromDb resolves with: the answer drawn in arg, or for
\* a tracked table ("get") the row the table holds
Fetched ==
  IF arg.how = "get" THEN GetFromDb(table.rows, arg.id) ELSE arg

\* M.load(id)
Load ==
  /\ phase = "unborn"
  /\ arg.how \in {"load", "loadNull", "get"}
  /\ IF Fetched.how = "loadNull"
     THEN /\ phase' = "absent"
          /\ found' = [NoFound EXCEPT !.outcome = "null"]
          /\ UNCHANGED <<entity, postLoadCalled>>
     ELSE /\ LET m == Constructor(Fetched, TRUE)
             IN /\ data' = m.data
                /\ changedFields' = m.changedFields
                /\ persisted' = m.persisted
                /\ id' = m.id
          /\ phase' = "live"
          /\ postLoadCalled' =
               IF "postLoad" \in globalSpec THEN "true" ELSE postLoadCalled
          /\ found' = [NoFound EXCEPT
                         !.outcome = "entity",
                         !.hooks = IF "postLoad" \in globalSpec
                                   THEN 1 ELSE 0]
  /\ arg' = NoArg
  /\ UNCHANGED <<globalSpec, calls, lastSave, sinceOk, postSaveCalled,
                 preSaveCalled>>
  /\ UNCHANGED table
  /\ UNCHANGED <<others, race>>
  /\ insertions' = Track(insertions, changedFields')

\* adapter.getContext() or adapter.getFromDb() rejects inside load()
LoadThrows ==
  /\ phase = "unborn"
  /\ arg.how \in {"load", "loadNull", "get"}
  /\ phase' = "absent"
  /\ arg' = NoArg
  /\ found' = [NoFound EXCEPT !.outcome = "threw", !.error = "adapter"]
  /\ UNCHANGED <<entity, globalSpec, calls, lastSave, sinceOk, flags>>
  /\ UNCHANGED table
  /\ UNCHANGED <<others, race>>
  /\ UNCHANGED insertions

\* what a field spec registry may declare for the key "id"
IdSpecs == {"none", "persistFalse", "encoder"}

\* (this.constructor as typeof Model).persistence inside a static method:
\* this is the class, this.constructor is Function, which the Persistence
\* decorator never wrote to
StaticConstructorPersistence == "undefined"

\* the loop of fromRow over the keys of the row, "id" among them, and
\* new this(data, true)
FromRowEntity(row, idSpec) ==
  Constructor(
    [keys |-> <<>>,
     val |-> [f \in AllFields |->
                IF Persist(f) THEN Decode(f, row.val[f]) ELSE Undef],
     id |-> IF idSpec = "persistFalse" THEN NoId
            ELSE IF idSpec = "encoder" THEN Decode("metadata", row.id)
            ELSE row.id],
    TRUE)

\* M.fromRow(row) under a registry that declares idSpec for "id":
\* destructuring { fieldSpecs } from undefined throws a TypeError
FromRow(idSpec) ==
  /\ phase = "unborn"
  /\ arg.how = "fromRow"
  /\ IF StaticConstructorPersistence = "undefined"
     THEN /\ phase' = "absent"
          /\ found' = [NoFound EXCEPT !.outcome = "threw",
                                      !.error = "TypeError"]
          /\ UNCHANGED entity
     ELSE /\ LET m == FromRowEntity(arg, idSpec)
             IN /\ data' = m.data
                /\ changedFields' = m.changedFields
                /\ persisted' = m.persisted
                /\ id' = m.id
          /\ phase' = "live"
          /\ found' = [NoFound EXCEPT !.outcome = "entity"]
  /\ arg' = NoArg
  /\ UNCHANGED <<globalSpec, calls, lastSave, sinceOk, flags>>
  /\ UNCHANGED table
  /\ UNCHANGED <<others, race>>
  /\ insertions' = Track(insertions, changedFields')

\* mutant: the WHERE clause is left out of the statement
AdapterAll_Unfiltered(rows, match) == rows

\* all(context, match) of the adapter for a criteria map: SELECT * FROM t
\* WHERE key = ? AND ..., one condition per key of the map; no map, no
\* WHERE clause
AdapterAll(rows, match) ==
  SelectSeq(rows,
            LAMBDA r : \A f \in AllFields :
                         match[f] # Undef => r.val[f] = match[f])

\* mutant: the first of several matching rows is returned
AdapterGetBy_First(rows, match) ==
  LET res == AdapterAll(rows, match)
  IN IF res = <<>>
     THEN [how |-> "loadNull", keys |-> <<>>, val |-> EmptyData,
           id |-> NoId, persistedArg |-> FALSE]
     ELSE [how |-> "load", keys |-> <<>>, val |-> res[1].val,
           id |-> res[1].id, persistedArg |-> TRUE]

\* getBy(context, match) of the adapter: throws on more than one result,
\* else res[0] || null
AdapterGetBy(rows, match) ==
  LET res == AdapterAll(rows, match)
  IN IF Len(res) > 1
     THEN [how |-> "threw", keys |-> <<>>, val |-> EmptyData,
           id |-> NoId, persistedArg |-> FALSE]
     ELSE IF res = <<>>
          THEN [how |-> "loadNull", keys |-> <<>>, val |-> EmptyData,
                id |-> NoId, persistedArg |-> FALSE]
          ELSE [how |-> "load", keys |-> <<>>, val |-> res[1].val,
                id |-> res[1].id, persistedArg |-> TRUE]

\* row reconstruction: persist=false fields dropped, encoded fields
\* decoded, the identifier kept, the entity persisted with nothing changed
Reconstruct(row) ==
  [data |-> [f \in AllFields |->
               IF Persist(f) THEN Decode(f, row.val[f]) ELSE Undef],
   changedFields |-> <<>>, persisted |-> TRUE, id |-> row.id]

\* M.getBy(criteria): the adapter's error reaches the caller; null on no
\* row; else the reconstructed entity, handed to postLoad
GetBy ==
  /\ phase = "unborn"
  /\ arg.how = "getBy"
  /\ LET row == AdapterGetBy(table.rows, arg.val)
     IN IF row.how = "load"
        THEN /\ LET m == Reconstruct(row)
                IN /\ data' = m.data
                   /\ changedFields' = m.changedFields
                   /\ persisted' = m.persisted
                   /\ id' = m.id
             /\ phase' = "live"
             /\ postLoadCalled' =
                  IF "postLoad" \in globalSpec THEN "true"
                  ELSE postLoadCalled
             /\ found' = [NoFound EXCEPT
                            !.outcome = "entity",
                            !.hooks = IF "postLoad" \in globalSpec
                                      THEN 1 ELSE 0]
        ELSE /\ phase' = "absent"
             /\ found' =
                  IF row.how = "threw"
                  THEN [NoFound EXCEPT !.outcome = "threw",
                                       !.error = "AmbiguousResult"]
                  ELSE [NoFound EXCEPT !.outcome = "null"]
             /\ UNCHANGED <<entity, postLoadCalled>>
  /\ arg' = NoArg
  /\ UNCHANGED <<globalSpec, calls, lastSave, sinceOk, postSaveCalled,
                 preSaveCalled>>
  /\ UNCHANGED table
  /\ UNCHANGED <<others, race>>
  /\ insertions' = Track(insertions, changedFields')

\* M.all(criteria?): every row the adapter returns is reconstructed and
\* handed to postLoad; the sequence of the entities is returned
All ==
  /\ phase = "unborn"
  /\ arg.how = "all"
  /\ LET res == AdapterAll(table.rows, arg.val)
     IN /\ found' = [NoFound EXCEPT
                       !.outcome = "list",
                       !.hooks = IF "postLoad" \in globalSpec
                                 THEN Len(res) ELSE 0,
                       !.entities = [k \in 1..Len(res) |->
                                       Reconstruct(res[k])]]
        /\ postLoadCalled' =
             IF "postLoad" \in globalSpec /\ res # <<>> THEN "true"
             ELSE postLoadCalled
  /\ phase' = "absent"
  /\ arg' = NoArg
  /\ UNCHANGED <<entity, globalSpec, calls, lastSave, sinceOk, postSaveCalled,
                 preSaveCalled>>
  /\ UNCHANGED table
  /\ UNCHANGED <<others, race>>
  /\ UNCHANGED insertions

\* adapter.getContext() or adapter.all() rejects inside M.all()
AllThrows ==
  /\ phase = "unborn"
  /\ arg.how = "all"
  /\ phase' = "absent"
  /\ arg' = NoArg
  /\ found' = [NoFound EXCEPT !.outcome = "threw", !.error = "adapter"]
  /\ UNCHANGED <<entity, globalSpec, calls, lastSave, sinceOk, flags>>
  /\ UNCHANGED table
  /\ UNCHANGED <<others, race>>
  /\ UNCHANGED insertions

\* m.get(key): return this.data[key]
Get(d, key) == d[key]

\* mutant: set() forgets the fields changed before
Set_ReplacesChanged(f, v) ==
  /\ phase = "live"
  /\ data' = [data EXCEPT ![f] = v]
  /\ changedFields' = <<f>>
  /\ sinceOk' = IF sinceOk = NA THEN NA ELSE sinceOk \cup {f}
  /\ Disturb
  /\ UNCHANGED <<phase, arg, persisted, id, globalSpec, flags>>
  /\ UNCHANGED <<table, found>>
  /\ UNCHANGED <<others, race>>
  /\ insertions' = Track(insertions, changedFields')

\* m.set(key, value)
Set(f, v) ==
  /\ phase = "live"
  /\ data' = [data EXCEPT ![f] = v]
  /\ changedFields' = SetAdd(changedFields, f)
  /\ sinceOk' = IF sinceOk = NA THEN NA ELSE sinceOk \cup {f}
  /\ Disturb
  /\ UNCHANGED <<phase, arg, persisted, id, globalSpec, flags>>
  /\ UNCHANGED <<table, found>>
  /\ UNCHANGED <<others, race>>
  /\ insertions' = Track(insertions, changedFields')

\* m.set(changes)
SetMany(o) ==
  /\ phase = "live"
  /\ LET r == ModelSetMany(data, changedFields, o)
     IN /\ data' = r.data
        /\ changedFields' = r.changedFields
  /\ sinceOk' = IF sinceOk = NA THEN NA ELSE sinceOk \cup Range(o.keys)
  /\ Disturb
  /\ UNCHANGED <<phase, arg, persisted, id, globalSpec, flags>>
  /\ UNCHANGED <<table, found>>
  /\ UNCHANGED <<others, race>>
  /\ insertions' = Track(insertions, changedFields')

\* mutant: put() marks the field changed, as set() does
Put_Marks(f, v) ==
  /\ phase = "live"
  /\ data' = [data EXCEPT ![f] = v]
  /\ changedFields' = SetAdd(changedFields, f)
  /\ Disturb
  /\ UNCHANGED <<phase, arg, persisted, id, globalSpec, sinceOk, flags>>
  /\ UNCHANGED <<table, found>>
  /\ UNCHANGED <<others, race>>
  /\ insertions' = Track(insertions, changedFields')

\* m.put(key, value)
Put(f, v) ==
  /\ phase = "live"
  /\ data' = [data EXCEPT ![f] = v]
  /\ Disturb
  /\ UNCHANGED <<phase, arg, changedFields, persisted, id, globalSpec,
                 sinceOk, flags>>
  /\ UNCHANGED <<table, found>>
  /\ UNCHANGED <<others, race>>
  /\ UNCHANGED insertions

\* m.put(changes)
PutMany(o) ==
  /\ phase = "live"
  /\ data' = Spread(data, o.val)
  /\ Disturb
  /\ UNCHANGED <<phase, arg, changedFields, persisted, id, globalSpec,
                 sinceOk, flags>>
  /\ UNCHANGED <<table, found>>
  /\ UNCHANGED <<others, race>>
  /\ UNCHANGED insertions

\* m.markChanged(field)
MarkChanged(f) ==
  /\ phase = "live"
  /\ changedFields' = SetAdd(changedFields, f)
  /\ sinceOk' = NA
  /\ Disturb
  /\ UNCHANGED <<phase, arg, data, persisted, id, globalSpec, flags>>
  /\ UNCHANGED <<table, found>>
  /\ UNCHANGED <<others, race>>
  /\ insertions' = Track(insertions, changedFields')

\* m.markUnchanged(field)
MarkUnchanged(f) ==
  /\ phase = "live"
  /\ changedFields' = SetDelete(changedFields, f)
  /\ sinceOk' = NA
  /\ Disturb
  /\ UNCHANGED <<phase, arg, data, persisted, id, globalSpec, flags>>
  /\ UNCHANGED <<table, found>>
  /\ UNCHANGED <<others, race>>
  /\ insertions' = Track(insertions, changedFields')

\* m.clearChangedFields()
ClearChangedFields ==
  /\ phase = "live"
  /\ changedFields' = ClearChanged(changedFields)
  /\ sinceOk' = NA
  /\ Disturb
  /\ UNCHANGED <<phase, arg, data, persisted, id, globalSpec, flags>>
  /\ UNCHANGED <<table, found>>
  /\ UNCHANGED <<others, race>>
  /\ insertions' = Track(insertions, changedFields')

\* ------------------------------------------------------------------ save
\* mutant: save() resolves with the entity whatever postSave returned
SaveReturn_This(gs) == "this"

\* if (globalSpec?.postSave) return globalSpec.postSave(context, this);
\* return this;
SaveReturn(gs) == IF "postSave" \in gs THEN "postSave" ELSE "this"

\* a save() that has returned or thrown; solo: nothing interleaved with it.
\* What a failed save() sent is kept, for the retry to be compared with.
Completed(c, outcome, error) ==
  IF calls[c].disturbed
  THEN [NoSave EXCEPT !.outcome = outcome, !.error = error,
                      !.returned = IF outcome = "ok"
                                   THEN SaveReturn(globalSpec) ELSE "none"]
  ELSE IF outcome = "failed"
       THEN [outcome |-> outcome, kind |-> calls[c].kind,
             fields |-> calls[c].fields, sent |-> calls[c].sent,
             error |-> error, solo |-> TRUE, after |-> "none",
             fresh |-> FALSE, returned |-> "none"]
       ELSE [NoSave EXCEPT !.outcome = outcome, !.kind = calls[c].kind,
                           !.error = error, !.solo = TRUE,
                           !.fresh = (outcome = "ok" /\ ~persisted
                                        /\ id = NoId),
                           !.returned = IF outcome = "ok"
                                        THEN SaveReturn(globalSpec)
                                        ELSE "none"]

\* mutant: the short-circuit is missing
NoOp_Missing(p, fields) == FALSE

\* mutant: the short-circuit does not ask whether the entity is persisted
NoOp_IgnoresPersisted(p, fields) == fields = <<>>

\* if (this.persisted && fields.length === 0) return this;
NoOp(p, fields) == p /\ fields = <<>>

\* mutant: the short-circuit clears the change set before it returns
SaveStart_Clears(c) ==
  /\ phase = "live"
  /\ calls[c].pc = "idle"
  /\ \A d \in Calls : d < c => calls[d].pc # "idle"
  /\ LET fields == OutboundFields(changedFields)
     IN IF NoOp(persisted, fields)
        THEN /\ lastSave' =
                  [NoSave EXCEPT
                     !.outcome = "noop",
                     !.returned = "this",
                     !.solo = (InFlight = {}),
                     !.after = IF lastSave.outcome = "ok" /\ lastSave.solo
                               THEN lastSave.kind
                               ELSE IF lastSave.outcome = "noop"
                                    THEN lastSave.after ELSE "none"]
             /\ UNCHANGED calls
        ELSE /\ calls' = [d \in Calls |->
                            IF d = c
                            THEN [Idle EXCEPT
                                    !.pc = "ctx", !.fields = fields,
                                    !.disturbed = (InFlight # {}),
                                    !.wasPersisted =
                                       (persisted /\ InFlight = {})]
                            ELSE IF calls[d].pc # "idle"
                                 THEN Disturbed(calls[d])
                                 ELSE calls[d]]
             /\ UNCHANGED lastSave
  /\ changedFields' = IF NoOp(persisted, OutboundFields(changedFields))
                      THEN ClearChanged(changedFields) ELSE changedFields
  /\ UNCHANGED <<phase, arg, data, persisted, id, globalSpec, sinceOk,
                 flags>>
  /\ UNCHANGED <<table, found>>
  /\ UNCHANGED <<others, race>>
  /\ insertions' = Track(insertions, changedFields')

\* save(), up to its first await: compute the outbound fields, return at
\* once on a no-op, else suspend on adapter.getContext()
SaveStart(c) ==
  /\ phase = "live"
  /\ calls[c].pc = "idle"
  /\ \A d \in Calls : d < c => calls[d].pc # "idle"
  /\ LET fields == OutboundFields(changedFields)
     IN IF NoOp(persisted, fields)
        THEN /\ lastSave' =
                  [NoSave EXCEPT
                     !.outcome = "noop",
                     !.returned = "this",
                     !.solo = (InFlight = {}),
                     !.after = IF lastSave.outcome = "ok" /\ lastSave.solo
                               THEN lastSave.kind
                               ELSE IF lastSave.outcome = "noop"
                                    THEN lastSave.after ELSE "none"]
             /\ UNCHANGED calls
        ELSE /\ calls' = [d \in Calls |->
                            IF d = c
                            THEN [Idle EXCEPT
                                    !.pc = "ctx", !.fields = fields,
                                    !.disturbed = (InFlight # {}),
                                    !.wasPersisted =
                                       (persisted /\ InFlight = {})]
                            ELSE IF calls[d].pc # "idle"
                                 THEN Disturbed(calls[d])
                                 ELSE calls[d]]
             /\ UNCHANGED lastSave
  /\ UNCHANGED <<phase, arg, entity, globalSpec, sinceOk, flags>>
  /\ UNCHANGED <<table, found>>
  /\ UNCHANGED <<others, race>>
  /\ UNCHANGED insertions

\* mutant: the adapter issues an INSERT whatever model.persisted says
Dispatch_AlwaysInsert(c, newId) ==
  [calls[c] EXCEPT
     !.pc = "db",
     !.kind = IF calls[c].disturbed THEN "sent" ELSE "insert",
     !.rid = IF persisted THEN id ELSE IF id # NoId THEN id ELSE newId,
     !.sent = IF calls[c].disturbed THEN NoneSent
              ELSE [f \in Range(calls[c].fields) |-> data[f]]]

\* saveToDb(context, model, fields) of the adapter, up to its await: the
\* statement kind, the identifier and the bind values are read from the model
Dispatch(c, newId) ==
  [calls[c] EXCEPT
     !.pc = "db",
     !.kind = IF calls[c].disturbed THEN "sent"
              ELSE IF persisted THEN "update" ELSE "insert",
     !.rid = IF persisted THEN id ELSE IF id # NoId THEN id ELSE newId,
     !.sent = IF calls[c].disturbed THEN NoneSent
              ELSE [f \in Range(calls[c].fields) |-> data[f]]]

\* adapter.getContext() resolves: save() calls adapter.saveToDb()
SaveGetContext(c) ==
  /\ calls[c].pc = "ctx"
  /\ \E newId \in Ids : calls' = [calls EXCEPT ![c] = Dispatch(c, newId)]
  /\ UNCHANGED <<phase, arg, entity, globalSpec, lastSave, sinceOk, flags>>
  /\ UNCHANGED <<table, found>>
  /\ UNCHANGED <<others, race>>
  /\ UNCHANGED insertions

\* mutant: _persisted is set before the adapter is awaited
SaveThrows_MarksPersisted(c) ==
  /\ calls[c].pc \in {"ctx", "db"}
  /\ lastSave' = Completed(c, "threw", "adapter")
  /\ calls' = Remove(c)
  /\ persisted' = TRUE
  /\ UNCHANGED <<phase, arg, data, changedFields, id, globalSpec, sinceOk,
                 flags>>
  /\ UNCHANGED <<table, found>>
  /\ UNCHANGED <<others, race>>
  /\ UNCHANGED insertions

\* adapter.getContext() or adapter.saveToDb() rejects: save() has no
\* try/catch, the adapter's error reaches the caller
SaveThrows(c) ==
  /\ calls[c].pc \in {"ctx", "db"}
  /\ lastSave' = Completed(c, "threw", "adapter")
  /\ calls' = Remove(c)
  /\ UNCHANGED <<phase, arg, entity, globalSpec, sinceOk, flags>>
  /\ UNCHANGED <<table, found>>
  /\ UNCHANGED <<others, race>>
  /\ UNCHANGED insertions

\* mutant: the success check comes after the entity is marked persisted
SaveFails_MarksPersisted(c) ==
  /\ calls[c].pc = "db"
  /\ lastSave' = Completed(c, "failed", "saveFailed")
  /\ calls' = Remove(c)
  /\ persisted' = TRUE
  /\ UNCHANGED <<phase, arg, data, changedFields, id, globalSpec, sinceOk,
                 flags>>
  /\ UNCHANGED <<table, found>>
  /\ UNCHANGED <<others, race>>
  /\ UNCHANGED insertions

\* mutant: the change set is cleared before the success check
SaveFails_Clears(c) ==
  /\ calls[c].pc = "db"
  /\ lastSave' = Completed(c, "failed", "saveFailed")
  /\ calls' = Remove(c)
  /\ changedFields' = <<>>
  /\ UNCHANGED <<phase, arg, data, persisted, id, globalSpec, sinceOk, flags>>
  /\ UNCHANGED <<table, found>>
  /\ UNCHANGED <<others, race>>
  /\ insertions' = Track(insertions, changedFields')

\* mutant: a failed save() resets _persisted
SaveFails_ResetsPersisted(c) ==
  /\ calls[c].pc = "db"
  /\ lastSave' = Completed(c, "failed", "saveFailed")
  /\ calls' = Remove(c)
  /\ persisted' = FALSE
  /\ UNCHANGED <<phase, arg, data, changedFields, id, globalSpec, sinceOk,
                 flags>>
  /\ UNCHANGED <<table, found>>
  /\ UNCHANGED <<others, race>>
  /\ UNCHANGED insertions

\* mutant: a failure report makes save() ask the adapter again
SaveFails_Retries(c) ==
  /\ calls[c].pc = "db"
  /\ calls' = [calls EXCEPT ![c].pc = "ctx"]
  /\ UNCHANGED <<phase, arg, entity, globalSpec, lastSave, sinceOk, flags>>
  /\ UNCHANGED <<table, found>>
  /\ UNCHANGED <<others, race>>
  /\ UNCHANGED insertions

\* saveToDb resolves with success: false
\* if (!success) throw new Error("Failed to save model to database")
SaveFails(c) ==
  /\ calls[c].pc = "db"
  /\ lastSave' = Completed(c, "failed", "saveFailed")
  /\ calls' = Remove(c)
  /\ UNCHANGED <<phase, arg, entity, globalSpec, sinceOk, flags>>
  /\ UNCHANGED <<table, found>>
  /\ UNCHANGED <<others, race>>
  /\ UNCHANGED insertions

\* the postSave hook of the binding: postSaveCalled = type
\* (save() passes no third argument)
PostSaveFlag(old) == IF "postSave" \in globalSpec THEN "undefined" ELSE old

\* mutant: the identifier the adapter returned is not stored
SaveResolves_NoAdopt(c, inserted, resId) ==
  /\ calls[c].pc = "db"
  /\ RunsOk(table, calls[c])
  /\ table' = DbRun(table, calls[c])
  /\ id' = id
  /\ persisted' = TRUE
  /\ changedFields' = ClearChanged(changedFields)
  /\ postSaveCalled' = PostSaveFlag(postSaveCalled)
  /\ lastSave' = Completed(c, "ok", "none")
  /\ calls' = Remove(c)
  /\ sinceOk' = {}
  /\ UNCHANGED <<phase, arg, data, globalSpec, preSaveCalled, postLoadCalled>>
  /\ UNCHANGED found
  /\ UNCHANGED <<others, race>>
  /\ insertions' = Track(insertions, changedFields')

\* mutant: the at-rest representation of each value is written back into
\* this.data
SaveResolves_WritesEncoded(c, inserted, resId) ==
  /\ calls[c].pc = "db"
  /\ RunsOk(table, calls[c])
  /\ table' = DbRun(table, calls[c])
  /\ id' = IF inserted THEN resId ELSE id
  /\ persisted' = TRUE
  /\ changedFields' = ClearChanged(changedFields)
  /\ postSaveCalled' = PostSaveFlag(postSaveCalled)
  /\ lastSave' = Completed(c, "ok", "none")
  /\ calls' = Remove(c)
  /\ sinceOk' = {}
  /\ data' = [f \in AllFields |-> Encode(f, data[f])]
  /\ UNCHANGED <<phase, arg, globalSpec, preSaveCalled, postLoadCalled>>
  /\ UNCHANGED found
  /\ UNCHANGED <<others, race>>
  /\ insertions' = Track(insertions, changedFields')

\* saveToDb resolves with { success: true, inserted, id: resId }: the rest
\* of save()
SaveResolves(c, inserted, resId) ==
  /\ calls[c].pc = "db"
  /\ RunsOk(table, calls[c])
  /\ table' = DbRun(table, calls[c])
  /\ id' = IF inserted THEN resId ELSE id
  /\ persisted' = TRUE
  /\ changedFields' = ClearChanged(changedFields)
  /\ postSaveCalled' = PostSaveFlag(postSaveCalled)
  /\ lastSave' = Completed(c, "ok", "none")
  /\ calls' = Remove(c)
  /\ sinceOk' = {}
  /\ UNCHANGED <<phase, arg, data, globalSpec, preSaveCalled, postLoadCalled>>
  /\ UNCHANGED found
  /\ UNCHANGED <<others, race>>
  /\ insertions' = Track(insertions, changedFields')

\* the sqlite adapter returns { success: true, inserted: !model.persisted,
\* id }, id being the one it bound to the statement
SaveSucceeds(c) == SaveResolves(c, ~persisted, calls[c].rid)

\* identifiers an adapter may return: any, also one never seen before
ResultIds == 1..(MaxId + 1)

\* an adapter of the AdapterConfig type resolves with any SaveResult whose
\* success is true
SaveResolvesAny(c) ==
  \E inserted \in BOOLEAN, resId \in ResultIds :
    SaveResolves(c, inserted, resId)

\* ---------------------------------------------------------------- delete
\* the binding of ComplexModel configures the postDelete hook
DeleteHooks == {"postDelete"}

\* mutant: the hook wipes the entity it is handed
PostDeleteHook_Wipes(m) ==
  [m EXCEPT !.data = EmptyData, !.changedFields = <<>>, !.persisted = FALSE]

\* the postDelete hook of the binding: postDeleteCalled = true, the model
\* it is handed is left alone
PostDeleteHook(m) == m

\* mutant: the DELETE reports a change and removes nothing
AdapterDel_KeepsRows(rows, i) ==
  [rows |-> rows, ok |-> RowsWithId(rows, i) # <<>>]

\* del(context, model) of the adapter: DELETE FROM t WHERE id = ?, and
\* whether the statement changed a row
AdapterDel(rows, i) ==
  [rows |-> SelectSeq(rows, LAMBDA r : r.id # i),
   ok |-> RowsWithId(rows, i) # <<>>]

\* m.del() when the adapter's del resolves with ok: the boolean is
\* returned, postDelete runs on success; for a table the model does not
\* track the adapter's answer is an input
DelResolves(ok) ==
  /\ phase = "live"
  /\ table.tracked => ok = AdapterDel(table.rows, id).ok
  /\ table' = IF table.tracked
              THEN [table EXCEPT !.rows = AdapterDel(table.rows, id).rows]
              ELSE table
  /\ LET me == [data |-> data, changedFields |-> changedFields,
                persisted |-> persisted, id |-> id]
         m == IF ok /\ "postDelete" \in DeleteHooks
              THEN PostDeleteHook(me) ELSE me
     IN /\ data' = m.data
        /\ changedFields' = m.changedFields
        /\ persisted' = m.persisted
        /\ id' = m.id
  /\ found' = [NoFound EXCEPT
                 !.outcome = IF ok THEN "true" ELSE "false",
                 !.hooks = IF ok /\ "postDelete" \in DeleteHooks
                           THEN 1 ELSE 0]
  /\ UNCHANGED <<phase, arg, globalSpec, calls, lastSave, sinceOk, flags>>
  /\ UNCHANGED <<others, race>>
  /\ insertions' = Track(insertions, changedFields')

\* m.del()
Del == \E ok \in BOOLEAN : DelResolves(ok)

\* adapter.getContext() or adapter.del() rejects inside del()
DelThrows ==
  /\ phase = "live"
  /\ found' = [NoFound EXCEPT !.outcome = "threw", !.error = "adapter"]
  /\ UNCHANGED <<phase, arg, entity, globalSpec, calls, lastSave, sinceOk,
                 flags>>
  /\ UNCHANGED <<table, others, race>>
  /\ UNCHANGED insertions

\* ------------------------------------------------- a second instance
\* another instance of the class, not yet constructed; pc, fields and rid
\* are those of its save() in flight
Unborn == [phase |-> "unborn", data |-> EmptyData, changedFields |-> <<>>,
           persisted |-> FALSE, id |-> NoId, pc |-> "idle", fields |-> <<>>,
           rid |-> NoId]

\* what an operation on the other instance k leaves alone: the first
\* instance, its save() calls, and the binding
OtherFrame ==
  UNCHANGED <<phase, arg, entity, globalSpec, calls, lastSave, sinceOk,
              table, found, race>>

\* const o = new M(data, persisted)
OtherNew(k, a) ==
  /\ others[k].phase = "unborn"
  /\ LET m == Constructor(a, a.persistedArg)
     IN others' = [others EXCEPT
                     ![k] = [Unborn EXCEPT
                               !.phase = "live", !.data = m.data,
                               !.changedFields = m.changedFields,
                               !.persisted = m.persisted, !.id = m.id]]
  /\ OtherFrame
  /\ UNCHANGED flags
  /\ UNCHANGED insertions

\* mutant: changedFields is one set shared by the instances of the class
OtherSet_Shared(k, f, v) ==
  /\ others[k].phase = "live"
  /\ others' = [others EXCEPT
                  ![k].data = [others[k].data EXCEPT ![f] = v],
                  ![k].changedFields = SetAdd(others[k].changedFields, f)]
  /\ changedFields' = SetAdd(changedFields, f)
  /\ UNCHANGED <<phase, arg, data, persisted, id, globalSpec, calls, lastSave,
                 sinceOk, table, found, race>>
  /\ UNCHANGED flags
  /\ insertions' = Track(insertions, changedFields')

\* o.set(key, value)
OtherSet(k, f, v) ==
  /\ others[k].phase = "live"
  /\ others' = [others EXCEPT
                  ![k].data = [others[k].data EXCEPT ![f] = v],
                  ![k].changedFields = SetAdd(others[k].changedFields, f)]
  /\ OtherFrame
  /\ UNCHANGED flags
  /\ UNCHANGED insertions

\* o.save(), up to its first await
OtherSaveStart(k) ==
  /\ others[k].phase = "live"
  /\ others[k].pc = "idle"
  /\ LET fields == OutboundFields(others[k].changedFields)
     IN IF NoOp(others[k].persisted, fields)
        THEN UNCHANGED others
        ELSE others' = [others EXCEPT ![k].pc = "ctx", ![k].fields = fields]
  /\ OtherFrame
  /\ UNCHANGED flags
  /\ UNCHANGED insertions

\* adapter.getContext() resolves for o.save(): saveToDb picks the
\* identifier
OtherSaveGetContext(k, newId) ==
  /\ others[k].pc = "ctx"
  /\ others' = [others EXCEPT
                  ![k].pc = "db",
                  ![k].rid = IF others[k].persisted THEN others[k].id
                             ELSE IF others[k].id # NoId THEN others[k].id
                             ELSE newId]
  /\ OtherFrame
  /\ UNCHANGED flags
  /\ UNCHANGED insertions

\* saveToDb resolves for o.save() with { success: true,
\* inserted: !model.persisted, id }: the rest of save()
OtherSaveSucceeds(k) ==
  /\ others[k].pc = "db"
  /\ others' = [others EXCEPT
                  ![k].id = IF ~others[k].persisted THEN others[k].rid
                            ELSE others[k].id,
                  ![k].persisted = TRUE,
                  ![k].changedFields = ClearChanged(others[k].changedFields),
                  ![k].pc = "idle",
                  ![k].fields = <<>>,
                  ![k].rid = NoId]
  /\ postSaveCalled' = PostSaveFlag(postSaveCalled)
  /\ OtherFrame
  /\ UNCHANGED <<preSaveCalled, postLoadCalled>>
  /\ UNCHANGED insertions

\* ------------------------------------ save() calls not awaited in turn
\* a save() the caller has not called yet
Waiting == [pc |-> "idle", fields |-> <<>>, kind |-> "none", rid |-> NoId,
            sent |-> NoneSent]

\* what a step of one of these save() calls leaves alone
RaceFrame ==
  UNCHANGED <<phase, arg, globalSpec, calls, lastSave, sinceOk, found,
              others>>

\* mutant: save() returns at once while another save() of the instance is
\* in flight
RaceStart_Locked(k) ==
  /\ phase = "live"
  /\ race[k].pc = "idle"
  /\ LET fields == OutboundFields(changedFields)
     IN IF NoOp(persisted, fields)
           \/ \E j \in DOMAIN race : race[j].pc \in {"ctx", "db"}
        THEN race' = [race EXCEPT ![k].pc = "done"]
        ELSE race' = [race EXCEPT ![k].pc = "ctx", ![k].fields = fields]
  /\ RaceFrame
  /\ UNCHANGED <<entity, table, flags>>
  /\ UNCHANGED insertions

\* save() number k, up to its first await: nothing tells it of a save()
\* already in flight
RaceStart(k) ==
  /\ phase = "live"
  /\ race[k].pc = "idle"
  /\ LET fields == OutboundFields(changedFields)
     IN IF NoOp(persisted, fields)
        THEN race' = [race EXCEPT ![k].pc = "done"]
        ELSE race' = [race EXCEPT ![k].pc = "ctx", ![k].fields = fields]
  /\ RaceFrame
  /\ UNCHANGED <<entity, table, flags>>
  /\ UNCHANGED insertions

\* adapter.getContext() resolves for save() number k: saveToDb reads
\* model.persisted, model.id and the values, up to its await
RaceGetContext(k, newId) ==
  /\ race[k].pc = "ctx"
  /\ race' = [race EXCEPT
                ![k].pc = "db",
                ![k].kind = IF persisted THEN "update" ELSE "insert",
                ![k].rid = IF persisted THEN id
                           ELSE IF id # NoId THEN id ELSE newId,
                ![k].sent = [f \in Range(race[k].fields) |-> data[f]]]
  /\ RaceFrame
  /\ UNCHANGED <<entity, table, flags>>
  /\ UNCHANGED insertions

\* saveToDb resolves for save() number k with { success: true,
\* inserted: !model.persisted, id }: the rest of save()
RaceResolves(k) ==
  /\ race[k].pc = "db"
  /\ RunsOk(table, race[k])
  /\ table' = DbRun(table, race[k])
  /\ id' = IF ~persisted THEN race[k].rid ELSE id
  /\ persisted' = TRUE
  /\ changedFields' = ClearChanged(changedFields)
  /\ postSaveCalled' = PostSaveFlag(postSaveCalled)
  /\ race' = [race EXCEPT ![k].pc = "done"]
  /\ RaceFrame
  /\ UNCHANGED <<data, preSaveCalled, postLoadCalled>>
  /\ insertions' = Track(insertions, changedFields')

\* an adapter call of save() number k rejects (a second INSERT of one id
\* does)
RaceThrows(k) ==
  /\ race[k].pc \in {"ctx", "db"}
  /\ race' = [race EXCEPT ![k].pc = "done"]
  /\ RaceFrame
  /\ UNCHANGED <<entity, table, flags>>
  /\ UNCHANGED insertions

\* maps passed to set(changes): two keys, in either order
Changes ==
  {[keys |-> s,
    val |-> [f \in AllFields |-> IF f \in Range(s) THEN MaxVal ELSE Undef]] :
     s \in {t \in KeySeqsOver(Fields) : Len(t) = 2}}

FieldOrder == <<"name", "count", "secretKey">>

Index(f) == CHOOSE i \in 1..Len(FieldOrder) : FieldOrder[i] = f

\* maps passed to put(changes): put() does not read the key order
PutChanges == {o \in Changes : Index(o.keys[1]) < Index(o.keys[2])}

Next ==
  \/ New
  \/ \E f \in Fields, v \in Values : Set(f, v)
  \/ \E o \in Changes : SetMany(o)
  \/ \E f \in Fields, v \in Values : Put(f, v)
  \/ \E o \in PutChanges : PutMany(o)
  \/ \E f \in Fields : MarkChanged(f)
  \/ \E f \in Fields : MarkUnchanged(f)
  \/ ClearChangedFields
  \/ \E c \in Calls : SaveStart(c)
  \/ \E c \in Calls : SaveGetContext(c)
  \/ \E c \in Calls : SaveThrows(c)
  \/ \E c \in Calls : SaveFails(c)
  \/ \E c \in Calls : SaveSucceeds(c)

Spec == Init /\ [][Next]_vars

\* load(), and the first caller operation on what it returned
NextLoad ==
  \/ Load
  \/ LoadThrows
  \/ \E idSpec \in IdSpecs : FromRow(idSpec)
  \/ \E f \in Fields, v \in Values : Set(f, v)
  \/ \E c \in Calls : SaveStart(c)

SpecLoad == InitLoad /\ [][NextLoad]_vars

\* rows the table may hold at the start: the persisted columns only
StoredRows ==
  {[id |-> i, val |-> o.val] :
     i \in Ids, o \in ObjectsOver(Fields \ NonPersisted)}

\* the table at the start: empty, or holding one row
StoredTables ==
  {[tracked |-> TRUE, rows |-> <<>>]}
  \cup {[tracked |-> TRUE, rows |-> <<r>>] : r \in StoredRows}

\* new M(data) and M.load(id) as callers of a stored table make them
StoreArgs ==
  {a \in Args : ~a.persistedArg}
  \cup {[NoArg EXCEPT !.how = "get", !.id = i] : i \in Ids}

\* an entity about to be constructed new, or loaded by id, from a table
InitStore == Start(StoreArgs, StoredTables)

\* the caller awaits every save() before the next operation
Quiet == InFlight = {}

\* construct or load, then set() and save() one after the other, the
\* table tracked
NextStore ==
  \/ New
  \/ Load
  \/ \E f \in Fields, v \in Values : Quiet /\ Set(f, v)
  \/ \E c \in Calls : Quiet /\ SaveStart(c)
  \/ \E c \in Calls : SaveGetContext(c)
  \/ \E c \in Calls : SaveThrows(c)
  \/ \E c \in Calls : SaveSucceeds(c)

SpecStore == InitStore /\ [][NextStore]_vars

\* the fields of the binding the encoder runs use: a plain one and the
\* JSON-encoded one
EncFields == {"name"} \cup Encoded

\* new M(data) over those fields
EncArgs ==
  {[how |-> h, keys |-> o.keys, val |-> o.val, id |-> i, persistedArg |-> p] :
     h \in {"new"}, o \in ObjectsOver(EncFields), i \in Ids \cup {NoId},
     p \in {FALSE}}

\* rows as an encoding save() leaves them: the encoded column holds text
EncRows ==
  {[how |-> h, keys |-> o.keys,
    val |-> [f \in AllFields |-> Encode(f, o.val[f])],
    id |-> i, persistedArg |-> p] :
     h \in {"load"}, o \in ObjectsOver(EncFields), i \in Ids, p \in {TRUE}}

InitEnc == Start(EncArgs \cup EncRows, {NoTable})

\* construct or load an entity with an encoded field, set() and save() it
NextEnc ==
  \/ New
  \/ Load
  \/ \E f \in EncFields, v \in Values : Set(f, v)
  \/ \E c \in Calls : SaveStart(c)
  \/ \E c \in Calls : SaveGetContext(c)
  \/ \E c \in Calls : SaveSucceeds(c)

SpecEnc == InitEnc /\ [][NextEnc]_vars

\* the same entities, with every outcome of save(): no-op, success, failure
\* reported by the adapter, error thrown by the adapter
NextEncSave ==
  \/ New
  \/ Load
  \/ \E f \in EncFields, v \in Values : Set(f, v)
  \/ \E c \in Calls : SaveStart(c)
  \/ \E c \in Calls : SaveGetContext(c)
  \/ \E c \in Calls : SaveThrows(c)
  \/ \E c \in Calls : SaveFails(c)
  \/ \E c \in Calls : SaveSucceeds(c)

SpecEncSave == InitEnc /\ [][NextEncSave]_vars

\* the history of the change set is kept from an empty one on
NoInsertions == <<>>

InitOrder ==
  Begin(Args, {NoTable}, {AllHooks}, {Alone}, {NoRace}, {NoInsertions})

\* construct an entity, change and mark its fields, save it, each
\* operation awaited before the next
NextOrder ==
  \/ New
  \/ \E f \in Fields, v \in Values : Quiet /\ Set(f, v)
  \/ \E o \in Changes : Quiet /\ SetMany(o)
  \/ \E f \in Fields : Quiet /\ MarkChanged(f)
  \/ \E f \in Fields : Quiet /\ MarkUnchanged(f)
  \/ Quiet /\ ClearChangedFields
  \/ \E c \in Calls : Quiet /\ SaveStart(c)
  \/ \E c \in Calls : SaveGetContext(c)
  \/ \E c \in Calls : SaveSucceeds(c)

SpecOrder == InitOrder /\ [][NextOrder]_vars

\* one save() at a time, the caller free to mutate the entity while it is
\* suspended
NextLive ==
  \/ New
  \/ \E f \in Fields, v \in Values : Set(f, v)
  \/ \E c \in Calls : Quiet /\ SaveStart(c)
  \/ \E c \in Calls : SaveGetContext(c)
  \/ \E c \in Calls : SaveThrows(c)
  \/ \E c \in Calls : SaveFails(c)
  \/ \E c \in Calls : SaveSucceeds(c)

\* the promises save() awaits settle: adapter.getContext() resolves or
\* rejects, and so does adapter.saveToDb()
Settles ==
  \A c \in Calls :
    /\ WF_vars(calls[c].pc = "ctx" /\ (SaveGetContext(c) \/ SaveThrows(c)))
    /\ WF_vars(/\ calls[c].pc = "db"
               /\ (SaveThrows(c) \/ SaveFails(c) \/ SaveSucceeds(c)))

SpecLive == Init /\ [][NextLive]_vars /\ Settles

\* the key orders of a value map that names its identifier: "id" at any
\* place among the keys of the fields
WithIdKey(keys) ==
  {ks \in KeySeqsOver(Range(keys) \cup {"id"}) :
     "id" \in Range(ks) /\ SelectSeq(ks, LAMBDA k : k # "id") = keys}

\* arguments of new M(data, persisted) as the caller writes them: the
\* identifier, when given, is a key of the value map
IdArgs ==
  {a \in Args : a.id = NoId}
  \cup
  UNION {{[a EXCEPT !.keys = ks] : ks \in WithIdKey(a.keys)} :
           a \in {b \in Args : b.id # NoId}}

InitId ==
  Begin(IdArgs, {NoTable}, {AllHooks}, {Alone}, {NoRace}, {NoHistory})

\* construct an entity, set() its fields, save() it
NextId ==
  \/ New
  \/ \E f \in Fields, v \in Values : Quiet /\ Set(f, v)
  \/ \E c \in Calls : Quiet /\ SaveStart(c)
  \/ \E c \in Calls : SaveGetContext(c)
  \/ \E c \in Calls : SaveFails(c)
  \/ \E c \in Calls : SaveSucceeds(c)

SpecId == InitId /\ [][NextId]_vars

\* the columns a criteria map may name
Columns == {"name", "count"}

\* tables of up to MaxRows rows, identifiers 1, 2, ... in insertion order
CriteriaTables ==
  {[tracked |-> TRUE,
    rows |-> [k \in 1..n |-> [id |-> k, val |-> vs[k].val]]] :
     n \in 0..MaxRows, vs \in [1..MaxRows -> ObjectsOver(Columns)]}

\* criteria maps: at least one column, each with the value to match
Criteria ==
  {[NoArg EXCEPT !.how = "getBy", !.val = o.val] :
     o \in {x \in ObjectsOver(Columns) : x.keys # <<>>}}

InitGetBy == Start(Criteria, CriteriaTables)

\* getBy(criteria), and the first caller operation on what it returned
NextGetBy ==
  \/ GetBy
  \/ \E f \in Fields, v \in Values : Set(f, v)
  \/ \E c \in Calls : SaveStart(c)

SpecGetBy == InitGetBy /\ [][NextGetBy]_vars

\* construct or load, then set(), save() and del() one after the other,
\* the table tracked
NextDel ==
  \/ New
  \/ Load
  \/ \E f \in Fields, v \in Values : Quiet /\ Set(f, v)
  \/ \E c \in Calls : Quiet /\ SaveStart(c)
  \/ \E c \in Calls : SaveGetContext(c)
  \/ \E c \in Calls : SaveSucceeds(c)
  \/ Quiet /\ Del
  \/ Quiet /\ DelThrows

SpecDel == InitStore /\ [][NextDel]_vars

\* the fields the two instances are given and written in
PairFields == {"name", "secretKey"}

\* new M(data, persisted) over those fields
PairArgs == {a \in Args : Range(a.keys) \subseteq PairFields}

\* the second instance is constructed new
NewArgs == {a \in PairArgs : ~a.persistedArg}

\* two instances of the class about to be constructed
InitPair ==
  Begin(PairArgs, {NoTable}, {AllHooks}, {<<Unborn>>}, {NoRace}, {NoHistory})

\* every operation of the first instance, interleaved at every await with
\* the construction, set() and save() of the second; each instance has its
\* own save() awaited before its next operation
NextPair ==
  \/ New
  \/ \E f \in PairFields, v \in Values : Quiet /\ Set(f, v)
  \/ \E f \in PairFields, v \in Values : Quiet /\ Put(f, v)
  \/ \E f \in PairFields : Quiet /\ MarkChanged(f)
  \/ \E f \in PairFields : Quiet /\ MarkUnchanged(f)
  \/ Quiet /\ ClearChangedFields
  \/ \E c \in Calls : Quiet /\ SaveStart(c)
  \/ \E c \in Calls : SaveGetContext(c)
  \/ \E c \in Calls : SaveSucceeds(c)
  \/ Quiet /\ Del
  \/ \E k \in DOMAIN others, a \in NewArgs : OtherNew(k, a)
  \/ \E k \in DOMAIN others, f \in PairFields, v \in Values :
       others[k].pc = "idle" /\ OtherSet(k, f, v)
  \/ \E k \in DOMAIN others : OtherSaveStart(k)
  \/ \E k \in DOMAIN others, newId \in Ids : OtherSaveGetContext(k, newId)
  \/ \E k \in DOMAIN others : OtherSaveSucceeds(k)

SpecPair == InitPair /\ [][NextPair]_vars

\* a new entity, an empty table, and two save() calls the caller makes
\* without awaiting the first
InitRace ==
  Begin({a \in Args : ~a.persistedArg},
        {[tracked |-> TRUE, rows |-> <<>>]}, {AllHooks}, {Alone},
        {<<Waiting, Waiting>>},
        {NoHistory})

NextRace ==
  \/ New
  \/ \E k \in DOMAIN race : RaceStart(k)
  \/ \E k \in DOMAIN race, newId \in ResultIds : RaceGetContext(k, newId)
  \/ \E k \in DOMAIN race : RaceResolves(k)
  \/ \E k \in DOMAIN race : RaceThrows(k)

SpecRace == InitRace /\ [][NextRace]_vars

\* all() and all(criteria): no map, or a map of any of the columns
AllCriteria ==
  {[NoArg EXCEPT !.how = "all", !.val = o.val] : o \in ObjectsOver(Columns)}

InitAll == Start(AllCriteria, CriteriaTables)

NextAll ==
  \/ All
  \/ AllThrows

SpecAll == InitAll /\ [][NextAll]_vars

\* bindings with and without a postSave hook
HookSets == {AllHooks, AllHooks \ {"postSave"}}

InitHooks == Begin(Args, {NoTable}, HookSets, {Alone}, {NoRace}, {NoHistory})

\* construct, set() and save() under either binding
NextHooks ==
  \/ New
  \/ \E f \in Fields, v \in Values : Set(f, v)
  \/ \E c \in Calls : SaveStart(c)
  \/ \E c \in Calls : SaveGetContext(c)
  \/ \E c \in Calls : SaveFails(c)
  \/ \E c \in Calls : SaveSucceeds(c)

SpecHooks == InitHooks /\ [][NextHooks]_vars

\* save() against any adapter of the AdapterConfig type
NextAdapter ==
  \/ New
  \/ \E f \in Fields, v \in Values : Set(f, v)
  \/ \E c \in Calls : SaveStart(c)
  \/ \E c \in Calls : SaveGetContext(c)
  \/ \E c \in Calls : SaveFails(c)
  \/ \E c \in Calls : SaveResolvesAny(c)

SpecAdapter == Init /\ [][NextAdapter]_vars

\* ================================================================ claims

\* C1 as stated: whenever a save() has completed successfully (by a
\* dispatch or by the no-op return) and nothing was mutated since,
\* getChangedFields() is empty and persisted is true.
C1_AsStated ==
  lastSave.outcome \in {"ok", "noop"} =>
    changedFields = <<>> /\ persisted

\* C1 amended: after a successful save() persisted is true and no persisted
\* field is left in getChangedFields(); after one that dispatched to the
\* adapter getChangedFields() is empty.
C1_AfterSuccessfulSave ==
  /\ lastSave.outcome = "ok" => changedFields = <<>> /\ persisted
  /\ lastSave.outcome = "noop" =>
       persisted /\ Range(changedFields) \subseteq NonPersisted

C1_Witness ==
  /\ lastSave.outcome = "ok"
  /\ lastSave.solo
  /\ lastSave.kind = "update"
  /\ data["secretKey"] # Undef

\* C2: a save() called on a persisted entity whose changed fields are all
\* persist=false returns at once: no call is left suspended on the adapter
\* and no hook flag is written; and a save() called right after a
\* successful insert, with nothing mutated in between, is such a no-op, so
\* the two calls issue one adapter write.
C2_NoOpSave ==
  [][\A c \in Calls :
       SaveStart(c) =>
         /\ (persisted /\ Range(changedFields) \subseteq NonPersisted) =>
              /\ calls' = calls
              /\ UNCHANGED flags
              /\ lastSave'.outcome = "noop"
         /\ (/\ lastSave.outcome = "ok"
             /\ lastSave.kind = "insert"
             /\ lastSave.solo
             /\ InFlight = {}) =>
              /\ calls' = calls
              /\ lastSave'.outcome = "noop"]_vars

C2_Witness ==
  /\ lastSave.outcome = "noop"
  /\ lastSave.after = "insert"
  /\ lastSave.solo
  /\ InFlight = {}

\* C3: when only set() was used since the last successful save(), the
\* field set of an undisturbed save() is exactly the fields set since then
\* minus the persist=false ones.
C3_OutboundIsChangedSet ==
  \A c \in Calls :
    (calls[c].pc \in {"ctx", "db"} /\ ~calls[c].disturbed /\ sinceOk # NA) =>
      Range(calls[c].fields) = sinceOk \ NonPersisted

C3_Witness ==
  \E c \in Calls :
    /\ calls[c].pc = "db"
    /\ ~calls[c].disturbed
    /\ sinceOk = {"count", "secretKey"}
    /\ calls[c].fields = <<"count">>
    /\ data["name"] # Undef

\* C4: the step that constructs an entity with persisted=false leaves
\* getChangedFields() holding exactly the field names of the value map,
\* each once, and persisted false.
C4_FreshChangedFields ==
  [][(phase = "unborn" /\ arg.how = "new" /\ ~arg.persistedArg
        /\ phase' = "live") =>
       /\ Range(changedFields') = Range(arg.keys)
       /\ Len(changedFields') = Len(arg.keys)
       /\ ~persisted']_vars

C4_Witness ==
  /\ phase = "live"
  /\ ~persisted
  /\ Len(changedFields) = 3
  /\ sinceOk = NA
  /\ lastSave = NoSave
  /\ InFlight = {}

\* C5: no save() in flight carries a persist=false field, neither in its
\* field set nor among the values sent.
C5_NoNonPersistedOutbound ==
  \A c \in Calls :
    /\ Range(calls[c].fields) \cap NonPersisted = {}
    /\ DOMAIN calls[c].sent \cap NonPersisted = {}

C5_Witness ==
  \E c \in Calls :
    /\ calls[c].pc = "db"
    /\ calls[c].fields # <<>>
    /\ "secretKey" \in Range(changedFields)
    /\ data["secretKey"] # Undef

\* C6 as stated: the entity a load produces holds no value for a
\* persist=false field, whatever the raw row contains.
C6_LoadDropsNonPersisted ==
  [][(phase = "unborn" /\ arg.how = "load" /\ phase' = "live") =>
       \A f \in NonPersisted : data'[f] = Undef]_vars

\* C7: the step in which save() learns success=false throws the save error
\* and leaves persisted and changedFields as they are.
C7_FailedSaveKeepsState ==
  [][\A c \in Calls :
       (calls[c].pc = "db" /\ lastSave'.outcome = "failed"
          /\ calls' = Remove(c)) =>
         /\ lastSave'.error = "saveFailed"
         /\ persisted' = persisted
         /\ changedFields' = changedFields]_vars

C7_Witness ==
  /\ lastSave.outcome = "failed"
  /\ lastSave.solo
  /\ ~persisted
  /\ changedFields # <<>>

\* C8: a save() retried after a failed one, with no mutation and no other
\* save() in between, dispatches the same kind, field set and values.
C8_RetryResendsSame ==
  \A c \in Calls :
    (/\ calls[c].pc = "db"
     /\ ~calls[c].disturbed
     /\ lastSave.outcome = "failed"
     /\ lastSave.solo) =>
      /\ calls[c].kind = lastSave.kind
      /\ calls[c].fields = lastSave.fields
      /\ calls[c].sent = lastSave.sent

C8_Witness ==
  \E c \in Calls :
    /\ calls[c].pc = "db"
    /\ ~calls[c].disturbed
    /\ lastSave.outcome = "failed"
    /\ lastSave.solo
    /\ Len(lastSave.fields) = 2

\* C9: the step in which an adapter call of save() rejects hands the
\* adapter's error to the caller and leaves persisted, changedFields and
\* the identifier as they are.
C9_ThrowKeepsState ==
  [][\A c \in Calls :
       (calls[c].pc \in {"ctx", "db"} /\ lastSave'.outcome = "threw"
          /\ calls' = Remove(c)) =>
         /\ lastSave'.error = "adapter"
         /\ persisted' = persisted
         /\ changedFields' = changedFields
         /\ id' = id]_vars

C9_Witness ==
  /\ lastSave.outcome = "threw"
  /\ lastSave.kind = "insert"
  /\ ~persisted
  /\ changedFields # <<>>

\* C10 as stated: with the incrementing preSave hook of the binding
\* configured, the step in which save() hands its field set to the adapter
\* follows a run of preSave, and the field the hook mutates is in that set.
C10_PreSaveInSameCycle ==
  [][\A c \in Calls :
       (calls[c].pc = "ctx" /\ calls'[c].pc = "db"
          /\ "preSave" \in globalSpec) =>
         /\ preSaveCalled' # "false"
         /\ "count" \in Range(calls'[c].fields)]_vars

C12_HooksSeeOperationKind ==
  (lastSave.outcome = "ok" /\ lastSave.solo
     /\ {"preSave", "postSave"} \subseteq globalSpec) =>
    /\ preSaveCalled = lastSave.kind
    /\ postSaveCalled = lastSave.kind

\* C13: the step in which the first save() of an entity constructed
\* without an identifier succeeds stores the identifier the adapter bound
\* and returned, and leaves changedFields empty.
C13_AdoptsReturnedId ==
  [][\A c \in Calls :
       (/\ calls[c].pc = "db"
        /\ ~calls[c].disturbed
        /\ ~persisted
        /\ id = NoId
        /\ lastSave'.outcome = "ok"
        /\ calls' = Remove(c)) =>
         /\ id' = calls[c].rid
         /\ id' # NoId
         /\ persisted'
         /\ changedFields' = <<>>]_vars

C13_Witness ==
  /\ lastSave.outcome = "ok"
  /\ lastSave.fresh
  /\ lastSave.kind = "insert"
  /\ id # NoId
  /\ data["name"] # Undef

\* C14 as stated: once persisted is true the identifier keeps its value in
\* every step, whatever the adapter resolves save() with.
C14_IdConstantOncePersisted ==
  [][(persisted /\ id # NoId) => id' = id]_vars

\* C15: persisted never goes back from true to false.
C15_PersistedMonotone ==
  [][persisted => persisted']_vars

C15_Witness ==
  /\ persisted
  /\ lastSave.outcome = "failed"
  /\ sinceOk # NA
  /\ changedFields # <<>>

C17_EncodeOnSaveDecodeOnLoad ==
  [][/\ \A c \in Calls :
          (calls[c].pc = "ctx" /\ calls'[c].pc = "db"
             /\ ~calls[c].disturbed) =>
            \A f \in Range(calls'[c].fields) :
              calls'[c].sent[f] = Encode(f, data[f])
     /\ (phase = "unborn" /\ arg.how = "load" /\ phase' = "live") =>
          \A f \in AllFields \ NonPersisted :
            data'[f] = Decode(f, arg.val[f])]_vars

C19_FromRowKeepsId ==
  [][(phase = "unborn" /\ arg.how = "fromRow" /\ phase' # "unborn") =>
       /\ phase' = "live"
       /\ id' = arg.id]_vars

C25_PutLeavesChangedFields ==
  [][/\ \A f \in Fields, v \in Values :
          Put(f, v) =>
            /\ data'[f] = v
            /\ changedFields' = changedFields
            /\ persisted' = persisted
     /\ \A o \in PutChanges :
          PutMany(o) =>
            /\ \A f \in Range(o.keys) : data'[f] = o.val[f]
            /\ changedFields' = changedFields
            /\ persisted' = persisted
     /\ \A c \in Calls :
          (calls'[c].pc = "ctx" /\ ~calls'[c].disturbed /\ sinceOk' # NA) =>
            Range(calls'[c].fields) \subseteq sinceOk']_vars

C25_Witness ==
  /\ persisted
  /\ sinceOk = {}
  /\ changedFields = <<>>
  /\ lastSave = NoSave
  /\ InFlight = {}
  /\ data["count"] # Undef

\* C26: a step of set(field, value) or set(partialMap) makes get(f) return
\* the new value for every written field f, adds the written field names
\* to changedFields and removes none, and leaves every other field value
\* and the persisted flag as they were.
C26_SetWritesAndMarks ==
  [][/\ \A f \in Fields, v \in Values :
          Set(f, v) =>
            /\ Get(data', f) = v
            /\ Range(changedFields') = Range(changedFields) \cup {f}
            /\ \A g \in AllFields \ {f} : Get(data', g) = Get(data, g)
            /\ persisted' = persisted
     /\ \A o \in Changes :
          SetMany(o) =>
            /\ \A f \in Range(o.keys) : Get(data', f) = o.val[f]
            /\ Range(changedFields') =
                 Range(changedFields) \cup Range(o.keys)
            /\ \A g \in AllFields \ Range(o.keys) :
                 Get(data', g) = Get(data, g)
            /\ persisted' = persisted]_vars

C26_Witness ==
  /\ persisted
  /\ sinceOk = {"name", "secretKey"}
  /\ changedFields = <<"secretKey", "name">>
  /\ InFlight = {}
  /\ Get(data, "count") # Undef

\* C27: every step, being one operation of one instance (construct, set,
\* put, mark*, a part of save, del), changes the fields, changedFields,
\* persisted flag and identifier of at most that instance, and leaves the
\* hooks of the binding as they are.
C27_InstancesIndependent ==
  [][/\ \/ <<data, changedFields, persisted, id>>' =
             <<data, changedFields, persisted, id>>
        \/ \A k \in DOMAIN others :
             /\ others'[k].data = others[k].data
             /\ others'[k].changedFields = others[k].changedFields
             /\ others'[k].persisted = others[k].persisted
             /\ others'[k].id = others[k].id
     /\ globalSpec' = globalSpec]_vars

C27_Witness ==
  /\ phase = "live"
  /\ others[1].phase = "live"
  /\ persisted
  /\ ~others[1].persisted
  /\ others[1].pc = "db"
  /\ changedFields = <<"secretKey">>
  /\ others[1].changedFields = <<"name">>
  /\ Get(data, "name") # Undef
  /\ found.outcome = "true"

\* C28: a save() started on a new entity goes on to the adapter whether or
\* not another save() of the instance is in flight, with the field set
\* changedFields gives at that moment; two save() calls in flight together
\* carry the same field set, and each that reaches the adapter while the
\* entity is still new issues an INSERT.
C28_NoMutualExclusion ==
  [][/\ \A k \in DOMAIN race :
          (race[k].pc = "idle" /\ race'[k].pc # "idle" /\ ~persisted) =>
            /\ race'[k].pc = "ctx"
            /\ race'[k].fields = OutboundFields(changedFields)
     /\ \A j, k \in DOMAIN race :
          (race'[j].pc \in {"ctx", "db"} /\ race'[k].pc \in {"ctx", "db"}) =>
            race'[j].fields = race'[k].fields
     /\ \A k \in DOMAIN race :
          (race'[k].pc = "db" /\ ~persisted') => race'[k].kind = "insert"]_vars

C28_Witness ==
  /\ Len(table.rows) = 2
  /\ table.rows[1].id # table.rows[2].id
  /\ table.rows[1].val = table.rows[2].val
  /\ \A k \in DOMAIN race : race[k].pc = "done" /\ race[k].kind = "insert"
  /\ persisted
  /\ changedFields = <<>>

\* C29 as stated: in every dispatching save() preSave has run by the step
\* that hands the field set to the adapter; the step in which postSave is
\* invoked leaves persisted true and changedFields empty for it to see; and
\* a step in which save() fails or throws does not invoke postSave.
C29_SaveStepOrder ==
  [][\A c \in Calls :
       /\ (calls[c].pc = "ctx" /\ calls'[c].pc = "db"
             /\ "preSave" \in globalSpec) =>
            preSaveCalled' # "false"
       /\ (calls[c].pc = "db" /\ lastSave'.outcome = "ok"
             /\ calls' = Remove(c) /\ "postSave" \in globalSpec) =>
            /\ postSaveCalled' # "false"
            /\ persisted'
            /\ changedFields' = <<>>
       /\ (calls[c].pc \in {"ctx", "db"}
             /\ lastSave'.outcome \in {"failed", "threw"}
             /\ calls' = Remove(c)) =>
            postSaveCalled' = postSaveCalled]_vars

\* C30: a save() called on an entity that is not persisted never returns
\* by the short-circuit: it goes on to the adapter with the outbound field
\* set, also when that set is empty.
C30_NewEntityAlwaysDispatches ==
  [][\A c \in Calls :
       (~persisted /\ SaveStart(c)) =>
         /\ calls'[c].pc = "ctx"
         /\ calls'[c].fields = OutboundFields(changedFields)
         /\ lastSave' = lastSave]_vars

C30_Witness ==
  \E c \in Calls :
    /\ calls[c].pc = "db"
    /\ calls[c].kind = "insert"
    /\ calls[c].fields = <<>>
    /\ ~calls[c].disturbed
    /\ ~persisted
    /\ changedFields = <<"secretKey">>

\* C31: a save() called on a persisted entity whose changed fields are all
\* persist=false is a no-op that leaves changedFields exactly as it was,
\* order included: the persist=false names are still in getChangedFields()
\* when the call has returned.
C31_NoOpKeepsChangedFields ==
  [][\A c \in Calls :
       (SaveStart(c) /\ persisted
          /\ Range(changedFields) \subseteq NonPersisted) =>
         /\ lastSave'.outcome = "noop"
         /\ changedFields' = changedFields
         /\ Range(changedFields') \subseteq NonPersisted]_vars

C31_Witness ==
  /\ lastSave.outcome = "noop"
  /\ lastSave.after = "none"
  /\ persisted
  /\ changedFields = <<"secretKey">>
  /\ data["secretKey"] # Undef

\* C32: when only set() and put() were used since the last successful
\* save(), a persisted-to-storage field that is in changedFields but not in
\* the field set of a suspended save() was set() after that save() computed
\* its field set; when the save() then completes successfully the field is
\* still in changedFields.
C32_MutationDuringSaveKept ==
  [][\A c \in Calls, f \in Fields :
       (/\ calls[c].pc \in {"ctx", "db"}
        /\ sinceOk # NA
        /\ Persist(f)
        /\ f \in Range(changedFields)
        /\ f \notin Range(calls[c].fields)
        /\ SaveSucceeds(c)) =>
         f \in Range(changedFields')]_vars

\* C33: no step of save() (its start or no-op return, the dispatch to the
\* adapter, the adapter's error, its failure report, its success) changes
\* what get(f) returns, for any field f: in particular the value of an
\* encoded field is the in-memory value after the save() as before it.
C33_SaveKeepsValues ==
  [][\A c \in Calls :
       (\/ SaveStart(c)
        \/ SaveGetContext(c)
        \/ SaveThrows(c)
        \/ SaveFails(c)
        \/ SaveSucceeds(c)) =>
         \A f \in AllFields : Get(data', f) = Get(data, f)]_vars

C33_Witness ==
  /\ lastSave.outcome = "ok"
  /\ lastSave.kind = "insert"
  /\ persisted
  /\ Get(data, "metadata") \in Values
  /\ Get(data, "name") \in Values

\* C34 as stated: getChangedFields() holds each changed field once, in the
\* order in which the fields were first inserted since the change set was
\* last empty.
C34_AsStated ==
  /\ \A i, j \in 1..Len(changedFields) :
       i # j => changedFields[i] # changedFields[j]
  /\ changedFields =
       SelectSeq(insertions, LAMBDA f : f \in Range(changedFields))

\* C34 amended: getChangedFields() holds each changed field once, in the
\* order in which the fields entered the set: the constructor of a fresh
\* entity leaves the keys of its argument in their order; set() or
\* markChanged() of a field that is in the set changes neither length nor
\* order, and of a field that is not in the set (also one that was removed
\* before) appends it at the end; markUnchanged() keeps the order of the
\* others; and save(), which calls getChangedFields(), leaves the entity
\* as it was up to its first await.
C34_InsertionOrder ==
  [][/\ \A i, j \in 1..Len(changedFields') :
          i # j => changedFields'[i] # changedFields'[j]
     /\ (phase = "unborn" /\ phase' = "live") =>
          changedFields' = IF arg.persistedArg THEN <<>> ELSE arg.keys
     /\ \A f \in Fields :
          ((\E v \in Values : Set(f, v)) \/ MarkChanged(f)) =>
            changedFields' = IF f \in Range(changedFields)
                             THEN changedFields
                             ELSE Append(changedFields, f)
     /\ \A f \in Fields :
          MarkUnchanged(f) =>
            changedFields' = SelectSeq(changedFields, LAMBDA g : g # f)
     /\ \A c \in Calls : SaveStart(c) => UNCHANGED entity]_vars

C34_Witness ==
  /\ changedFields = <<"count", "name">>
  /\ insertions = <<"name", "count">>
  /\ InFlight = {}
  /\ ~persisted

\* C35: a step of markChanged(f) adds exactly f to changedFields, a step of
\* markUnchanged(f) removes exactly f, a step of clearChangedFields()
\* empties it, and none of them changes a field value, persisted or the
\* identifier; and the field set a save() leaves with is exactly the
\* changed fields at that moment minus the persist=false ones, so a field
\* removed before the save() is not in it and a field marked before it is.
C35_MarksEditChangeSet ==
  [][/\ \A f \in Fields :
          MarkChanged(f) =>
            /\ Range(changedFields') = Range(changedFields) \cup {f}
            /\ data' = data /\ persisted' = persisted /\ id' = id
     /\ \A f \in Fields :
          MarkUnchanged(f) =>
            /\ Range(changedFields') = Range(changedFields) \ {f}
            /\ data' = data /\ persisted' = persisted /\ id' = id
     /\ ClearChangedFields =>
          /\ changedFields' = <<>>
          /\ data' = data /\ persisted' = persisted /\ id' = id
     /\ \A c \in Calls :
          (SaveStart(c) /\ calls'[c].pc = "ctx") =>
            Range(calls'[c].fields) = Range(changedFields) \ NonPersisted]_vars

C35_Witness ==
  \E c \in Calls :
    /\ calls[c].pc = "ctx"
    /\ calls[c].fields = <<"count">>
    /\ changedFields = <<"secretKey", "count">>
    /\ ~persisted
    /\ Get(data, "name") \in Values

\* C36: a save() call goes through its steps once, in order: from the
\* field filter to adapter.getContext(), from there to one
\* adapter.saveToDb(), from there out of save(); no step, the failure
\* report included, takes a call back to the adapter; and, the adapter's
\* promises settling, every save() call that is suspended eventually
\* returns or throws.
C36_OneDispatchThenReturn ==
  /\ [][\A c \in Calls :
          /\ calls[c].pc = "idle" => calls'[c].pc \in {"idle", "ctx"}
          /\ calls[c].pc = "ctx" => calls'[c].pc \in {"ctx", "db", "idle"}
          /\ calls[c].pc = "db" =>
               \/ calls'[c] = calls[c]
               \/ calls'[c] = Disturbed(calls[c])
               \/ calls'[c].pc = "idle" /\ lastSave'.outcome # "none"
          /\ SaveFails(c) =>
               calls'[c].pc = "idle" /\ lastSave'.outcome = "failed"]_vars
  /\ \A c \in Calls : (calls[c].pc # "idle") ~> (calls[c].pc = "idle")

C36_Witness ==
  /\ lastSave.outcome = "failed"
  /\ lastSave.error = "saveFailed"
  /\ lastSave.kind = "insert"
  /\ InFlight = {}
  /\ ~persisted
  /\ changedFields = <<"name">>

\* C37: the step that constructs an entity from a value map with an
\* identifier key, persisted or not, leaves the entity holding that
\* identifier and a changedFields without the identifier key (for
\* persisted=false: the other keys, in their order); and the identifier
\* key is never in changedFields nor in the field set or among the
\* values of a save().
C37_ConstructorTakesId ==
  [][/\ (phase = "unborn" /\ arg.how = "new" /\ "id" \in Range(arg.keys)
           /\ phase' = "live") =>
          /\ id' = arg.id
          /\ id' # NoId
          /\ changedFields' =
               IF arg.persistedArg THEN <<>>
               ELSE SelectSeq(arg.keys, LAMBDA k : k # "id")
     /\ "id" \notin Range(changedFields')
     /\ \A c \in Calls :
          /\ "id" \notin Range(calls'[c].fields)
          /\ "id" \notin DOMAIN calls'[c].sent]_vars

C37_Witness ==
  \E c \in Calls :
    /\ calls[c].pc = "db"
    /\ calls[c].kind = "insert"
    /\ calls[c].fields = <<"name", "count">>
    /\ calls[c].rid = id
    /\ id # NoId
    /\ ~persisted
    /\ lastSave = NoSave

====
